---- MODULE Spec2Model ----
(***************************************************************************)
(* Model of the image/text to PDF service (app/main.py, app/ocr_utils.py). *)
(* Text is a sequence of Unicode code points.                              *)
(***************************************************************************)
EXTENDS Integers, Sequences, FiniteSets, TLC

\* ---------------------------------------------------------------- bounds
\* longest input string handed to transliterate_cyrillic
MaxLen == 2

\* ------------------------------------------------- transliteration table
\* the dict literal of transliterate_cyrillic, keys and values as code points
cyrillic_to_latin_i ==
    1072 :> <<97>> @@ 1073 :> <<98>> @@ 1074 :> <<118>> @@ 1075 :> <<103>> @@
    1076 :> <<100>> @@ 1077 :> <<101>> @@ 1108 :> <<121, 101>> @@ 1078 :> <<122, 104>> @@
    1079 :> <<122>> @@ 1080 :> <<105>> @@ 1110 :> <<105>> @@ 1111 :> <<121, 105>> @@
    1081 :> <<121>> @@ 1082 :> <<107>> @@ 1083 :> <<108>> @@ 1084 :> <<109>> @@
    1085 :> <<110>> @@ 1086 :> <<111>> @@ 1087 :> <<112>> @@ 1088 :> <<114>> @@
    1089 :> <<115>> @@ 1090 :> <<116>> @@ 1091 :> <<117>> @@ 1092 :> <<102>> @@
    1093 :> <<107, 104>> @@ 1094 :> <<116, 115>> @@ 1095 :> <<99, 104>> @@ 1096 :> <<115, 104>> @@
    1097 :> <<115, 104, 99, 104>> @@ 1100 :> <<>> @@ 1102 :> <<121, 117>> @@ 1103 :> <<121, 97>> @@
    1040 :> <<65>> @@ 1041 :> <<66>> @@ 1042 :> <<86>> @@ 1043 :> <<71>> @@
    1044 :> <<68>> @@ 1045 :> <<69>> @@ 1028 :> <<89, 69>> @@ 1046 :> <<90, 72>> @@
    1047 :> <<90>> @@ 1048 :> <<89>> @@ 1030 :> <<73>> @@ 1031 :> <<89, 73>> @@
    1049 :> <<89>> @@ 1050 :> <<75>> @@ 1051 :> <<76>> @@ 1052 :> <<77>> @@
    1053 :> <<78>> @@ 1054 :> <<79>> @@ 1055 :> <<80>> @@ 1056 :> <<82>> @@
    1057 :> <<83>> @@ 1058 :> <<84>> @@ 1059 :> <<85>> @@ 1060 :> <<70>> @@
    1061 :> <<75, 72>> @@ 1062 :> <<84, 83>> @@ 1063 :> <<67, 72>> @@ 1064 :> <<83, 72>> @@
    1065 :> <<83, 72, 67, 72>> @@ 1068 :> <<>> @@ 1070 :> <<89, 85>> @@ 1071 :> <<89, 65>>

\* the table with 'х' written as 'k'
cyrillic_to_latin_kh ==
    1072 :> <<97>> @@ 1073 :> <<98>> @@ 1074 :> <<118>> @@ 1075 :> <<103>> @@
    1076 :> <<100>> @@ 1077 :> <<101>> @@ 1108 :> <<121, 101>> @@ 1078 :> <<122, 104>> @@
    1079 :> <<122>> @@ 1080 :> <<121>> @@ 1110 :> <<105>> @@ 1111 :> <<121, 105>> @@
    1081 :> <<121>> @@ 1082 :> <<107>> @@ 1083 :> <<108>> @@ 1084 :> <<109>> @@
    1085 :> <<110>> @@ 1086 :> <<111>> @@ 1087 :> <<112>> @@ 1088 :> <<114>> @@
    1089 :> <<115>> @@ 1090 :> <<116>> @@ 1091 :> <<117>> @@ 1092 :> <<102>> @@
    1093 :> <<107>> @@ 1094 :> <<116, 115>> @@ 1095 :> <<99, 104>> @@ 1096 :> <<115, 104>> @@
    1097 :> <<115, 104, 99, 104>> @@ 1100 :> <<>> @@ 1102 :> <<121, 117>> @@ 1103 :> <<121, 97>> @@
    1040 :> <<65>> @@ 1041 :> <<66>> @@ 1042 :> <<86>> @@ 1043 :> <<71>> @@
    1044 :> <<68>> @@ 1045 :> <<69>> @@ 1028 :> <<89, 69>> @@ 1046 :> <<90, 72>> @@
    1047 :> <<90>> @@ 1048 :> <<89>> @@ 1030 :> <<73>> @@ 1031 :> <<89, 73>> @@
    1049 :> <<89>> @@ 1050 :> <<75>> @@ 1051 :> <<76>> @@ 1052 :> <<77>> @@
    1053 :> <<78>> @@ 1054 :> <<79>> @@ 1055 :> <<80>> @@ 1056 :> <<82>> @@
    1057 :> <<83>> @@ 1058 :> <<84>> @@ 1059 :> <<85>> @@ 1060 :> <<70>> @@
    1061 :> <<75, 72>> @@ 1062 :> <<84, 83>> @@ 1063 :> <<67, 72>> @@ 1064 :> <<83, 72>> @@
    1065 :> <<83, 72, 67, 72>> @@ 1068 :> <<>> @@ 1070 :> <<89, 85>> @@ 1071 :> <<89, 65>>

\* the table with the 'e' of 'є': 'ye' typed as the Cyrillic letter
cyrillic_to_latin_homoglyph ==
    1072 :> <<97>> @@ 1073 :> <<98>> @@ 1074 :> <<118>> @@ 1075 :> <<103>> @@
    1076 :> <<100>> @@ 1077 :> <<101>> @@ 1108 :> <<121, 1077>> @@ 1078 :> <<122, 104>> @@
    1079 :> <<122>> @@ 1080 :> <<121>> @@ 1110 :> <<105>> @@ 1111 :> <<121, 105>> @@
    1081 :> <<121>> @@ 1082 :> <<107>> @@ 1083 :> <<108>> @@ 1084 :> <<109>> @@
    1085 :> <<110>> @@ 1086 :> <<111>> @@ 1087 :> <<112>> @@ 1088 :> <<114>> @@
    1089 :> <<115>> @@ 1090 :> <<116>> @@ 1091 :> <<117>> @@ 1092 :> <<102>> @@
    1093 :> <<107, 104>> @@ 1094 :> <<116, 115>> @@ 1095 :> <<99, 104>> @@ 1096 :> <<115, 104>> @@
    1097 :> <<115, 104, 99, 104>> @@ 1100 :> <<>> @@ 1102 :> <<121, 117>> @@ 1103 :> <<121, 97>> @@
    1040 :> <<65>> @@ 1041 :> <<66>> @@ 1042 :> <<86>> @@ 1043 :> <<71>> @@
    1044 :> <<68>> @@ 1045 :> <<69>> @@ 1028 :> <<89, 69>> @@ 1046 :> <<90, 72>> @@
    1047 :> <<90>> @@ 1048 :> <<89>> @@ 1030 :> <<73>> @@ 1031 :> <<89, 73>> @@
    1049 :> <<89>> @@ 1050 :> <<75>> @@ 1051 :> <<76>> @@ 1052 :> <<77>> @@
    1053 :> <<78>> @@ 1054 :> <<79>> @@ 1055 :> <<80>> @@ 1056 :> <<82>> @@
    1057 :> <<83>> @@ 1058 :> <<84>> @@ 1059 :> <<85>> @@ 1060 :> <<70>> @@
    1061 :> <<75, 72>> @@ 1062 :> <<84, 83>> @@ 1063 :> <<67, 72>> @@ 1064 :> <<83, 72>> @@
    1065 :> <<83, 72, 67, 72>> @@ 1068 :> <<>> @@ 1070 :> <<89, 85>> @@ 1071 :> <<89, 65>>

cyrillic_to_latin ==
    1072 :> <<97>> @@ 1073 :> <<98>> @@ 1074 :> <<118>> @@ 1075 :> <<103>> @@
    1076 :> <<100>> @@ 1077 :> <<101>> @@ 1108 :> <<121, 101>> @@ 1078 :> <<122, 104>> @@
    1079 :> <<122>> @@ 1080 :> <<121>> @@ 1110 :> <<105>> @@ 1111 :> <<121, 105>> @@
    1081 :> <<121>> @@ 1082 :> <<107>> @@ 1083 :> <<108>> @@ 1084 :> <<109>> @@
    1085 :> <<110>> @@ 1086 :> <<111>> @@ 1087 :> <<112>> @@ 1088 :> <<114>> @@
    1089 :> <<115>> @@ 1090 :> <<116>> @@ 1091 :> <<117>> @@ 1092 :> <<102>> @@
    1093 :> <<107, 104>> @@ 1094 :> <<116, 115>> @@ 1095 :> <<99, 104>> @@ 1096 :> <<115, 104>> @@
    1097 :> <<115, 104, 99, 104>> @@ 1100 :> <<>> @@ 1102 :> <<121, 117>> @@ 1103 :> <<121, 97>> @@
    1040 :> <<65>> @@ 1041 :> <<66>> @@ 1042 :> <<86>> @@ 1043 :> <<71>> @@
    1044 :> <<68>> @@ 1045 :> <<69>> @@ 1028 :> <<89, 69>> @@ 1046 :> <<90, 72>> @@
    1047 :> <<90>> @@ 1048 :> <<89>> @@ 1030 :> <<73>> @@ 1031 :> <<89, 73>> @@
    1049 :> <<89>> @@ 1050 :> <<75>> @@ 1051 :> <<76>> @@ 1052 :> <<77>> @@
    1053 :> <<78>> @@ 1054 :> <<79>> @@ 1055 :> <<80>> @@ 1056 :> <<82>> @@
    1057 :> <<83>> @@ 1058 :> <<84>> @@ 1059 :> <<85>> @@ 1060 :> <<70>> @@
    1061 :> <<75, 72>> @@ 1062 :> <<84, 83>> @@ 1063 :> <<67, 72>> @@ 1064 :> <<83, 72>> @@
    1065 :> <<83, 72, 67, 72>> @@ 1068 :> <<>> @@ 1070 :> <<89, 85>> @@ 1071 :> <<89, 65>>

\* dict.get(key, default)
dict_get(d, key, default) ==
    IF key \in DOMAIN d THEN d[key] ELSE default

\* the loop "for char in text: result += cyrillic_to_latin.get(char, char)",
\* from position i on, with the result accumulated so far
RECURSIVE transliterate_loop_prepend(_, _, _)
transliterate_loop_prepend(text, i, result) ==
    IF i > Len(text) THEN result
    ELSE transliterate_loop_prepend(text, i + 1,
             dict_get(cyrillic_to_latin, text[i], <<text[i]>>) \o result)

RECURSIVE transliterate_loop(_, _, _)
transliterate_loop(text, i, result) ==
    IF i > Len(text) THEN result
    ELSE transliterate_loop(text, i + 1,
             result \o dict_get(cyrillic_to_latin, text[i], <<text[i]>>))

transliterate_cyrillic(text) ==
    transliterate_loop(text, 1, <<>>)

\* --------------------------------------------------------------- strings
\* the characters str.strip() removes (str.isspace)
whitespace ==
    {9, 10, 11, 12, 13, 28, 29, 30, 31, 32, 133, 160, 5760, 8232, 8233,
     8239, 8287, 12288} \cup (8192..8202)

RECURSIVE lstrip(_)
lstrip(s) ==
    IF s # <<>> /\ Head(s) \in whitespace THEN lstrip(Tail(s)) ELSE s

RECURSIVE rstrip(_)
rstrip(s) ==
    IF s # <<>> /\ s[Len(s)] \in whitespace
    THEN rstrip(SubSeq(s, 1, Len(s) - 1)) ELSE s

\* str.strip()
strip(s) ==
    rstrip(lstrip(s))

\* "OCR Error: "
OcrErrorPrefix ==
    <<79, 67, 82, 32, 69, 114, 114, 111, 114, 58, 32>>

\* the text set by "except pytesseract.TesseractNotFoundError"
tesseract_not_found_text ==
    OcrErrorPrefix \o
    <<84, 101, 115, 115, 101, 114, 97, 99, 116, 32, 110, 111, 116, 32, 102,
      111, 117, 110, 100, 46, 32, 80, 108, 101, 97, 115, 101, 32, 101, 110,
      115, 117, 114, 101, 32, 105, 116, 39, 115, 32, 105, 110, 115, 116, 97,
      108, 108, 101, 100, 32, 97, 110, 100, 32, 99, 111, 110, 102, 105, 103,
      117, 114, 101, 100, 32, 99, 111, 114, 114, 101, 99, 116, 108, 121, 46>>

\* the text set by "except Exception as e" around the OCR calls; e is str(e)
ocr_error_text_blank(e) ==
    <<>>

ocr_error_text(e) ==
    OcrErrorPrefix \o e \o
    <<10, 80, 108, 101, 97, 115, 101, 32, 99, 104, 101, 99, 107, 32, 105,
      102, 32, 116, 104, 101, 32, 105, 109, 97, 103, 101, 32, 99, 111, 110,
      116, 97, 105, 110, 115, 32, 114, 101, 97, 100, 97, 98, 108, 101, 32,
      116, 101, 120, 116, 32, 111, 114, 32, 105, 102, 32, 84, 101, 115, 115,
      101, 114, 97, 99, 116, 32, 105, 115, 32, 99, 111, 110, 102, 105, 103,
      117, 114, 101, 100, 46>>

\* ------------------------------------------------------ request pipeline
\* allowed_types of upload_file and api_upload_file in app/main.py
allowed_types ==
    {"image/jpeg", "image/jpg", "image/png", "image/gif", "image/bmp",
     "image/tiff"}

\* the OCR attempts of process_image_to_pdf in program order: the primary
\* call, the eng call, then the loop "for psm in [6, 7, 8, 13]"
ocr_configs_eng_first ==
    << [lang |-> "eng", psm |-> 3], [lang |-> "ukr+eng+rus", psm |-> 3],
       [lang |-> "eng", psm |-> 6], [lang |-> "eng", psm |-> 7],
       [lang |-> "eng", psm |-> 8], [lang |-> "eng", psm |-> 13] >>

ocr_configs ==
    << [lang |-> "ukr+eng+rus", psm |-> 3], [lang |-> "eng", psm |-> 3],
       [lang |-> "eng", psm |-> 6], [lang |-> "eng", psm |-> 7],
       [lang |-> "eng", psm |-> 8], [lang |-> "eng", psm |-> 13] >>

\* the methods create_text_pdf_with_cyrillic tries, in program order
fallback_chain_simple_first ==
    << "create_pdf_weasyprint", "create_text_pdf_reportlab_simple",
       "create_text_pdf_reportlab_advanced", "create_text_pdf_fpdf_unicode",
       "create_text_pdf_basic_fallback" >>

fallback_chain ==
    << "create_pdf_weasyprint", "create_text_pdf_reportlab_advanced",
       "create_text_pdf_reportlab_simple", "create_text_pdf_fpdf_unicode",
       "create_text_pdf_basic_fallback" >>

\* "text: str = Form(...)": a required form field; the framework reports an
\* empty form value as a missing field before the handler runs
form_accepts_empty(value) ==
    TRUE

form_required(value) ==
    value # <<>>

\* ----------------------------------------------------------- environment
\* what a request can carry and what the libraries can answer
\* the two files that make a FastAPI application: app/main.py, and app.py
\* with an upload_file and a text_to_pdf of its own
AppFiles == {"app/main.py", "app.py"}

UploadRoutes(f) ==
    IF f = "app/main.py" THEN {"/upload/", "/api/upload/"} ELSE {"/upload/"}

TextRoutes(f) ==
    IF f = "app/main.py" THEN {"/text/", "/api/text/"} ELSE {"/text/"}

\* the handlers of app/main.py check the content type and the size of the
\* temporary file; those of app.py check nothing
checks_upload(f) ==
    f = "app/main.py"

\* the handlers of app/main.py have "except Exception: raise
\* HTTPException(status_code=500)"; those of app.py have no try
catches_exceptions(f) ==
    f = "app/main.py"

ContentTypes == {"image/png", "text/plain"}
UploadSizes == {0, 1}
\* "", " ", "Hi"
FormTexts == {<<>>, <<32>>, <<72, 105>>}
\* "", " \n", "Hi\n"
OcrTexts == {<<>>, <<32, 10>>, <<72, 105, 10>>}
\* str(e) of an exception of the OCR engine: "boom"
OcrFailure == <<98, 111, 111, 109>>
OcrOutcomes ==
    {[kind |-> "text", text |-> t] : t \in OcrTexts} \cup
    {[kind |-> "raise", text |-> OcrFailure],
     [kind |-> "notfound", text |-> <<>>]}
\* a method returns its output file, or raises before it has made the file
\* (a failed import, NamedTemporaryFile failing) or after it
MethodOutcomes == {"ok", "raise_early", "raise_late"}

VARIABLES
    pc,            \* position of the request in its handler
    app_file,      \* the file whose application serves the request
    kind,          \* "upload" or "text"
    route,         \* the path of the endpoint
    upload,        \* the uploaded file: content type, size, readability,
                   \* and whether making or writing the temporary file fails
    image_path,    \* tmp_path of upload_file, 0 when there is none
    files,         \* the temporary files that exist
    created,       \* the temporary files the request has created
    nextPath,      \* the next unused temporary name
    ocrLog,        \* the OCR calls made, in order, with what they answered
    ocr_idx,       \* the next entry of ocr_configs
    text,          \* text of process_image_to_pdf, or the form field
    stage,         \* the next entry of fallback_chain
    stageLog,      \* the methods attempted, in order, with their outcome
    render_result, \* how create_text_pdf_with_cyrillic ended
    pdf_path,      \* the path it returned, 0 when there is none
    proc_result,   \* how process_image_to_pdf ended
    ocr_invoked,   \* process_image_to_pdf has been called
    response,      \* status and file of the HTTP response, status 0: none
    input,         \* argument of transliterate_cyrillic
    result,        \* its value
    twice,         \* its value on its own result
    other,         \* a second argument of transliterate_cyrillic
    other_result,  \* its value
    tpc,           \* position of the transliteration run
    rq,            \* concurrent requests: position and paths of each
    cfiles,        \* the temporary files that exist while they run
    cnext,         \* the least temporary name never given
    owner,         \* for each temporary name, the request that last made it
    access,        \* no request has touched a file another request made
    fonts,         \* the size of each file of fonts/, 0 when it is absent
    fcalls,        \* calls of create_text_pdf_with_cyrillic begun so far
    fstage,        \* the next entry of fallback_chain in the call, 0: no call
    flog,          \* the method run last: its fonts, downloads and outcome
    accepted       \* fonts downloaded and accepted, with the call that did

reqvars ==
    <<pc, app_file, kind, route, upload, image_path, files, created, nextPath, ocrLog,
      ocr_idx, text, stage, stageLog, render_result, pdf_path, proc_result,
      ocr_invoked, response>>

trvars == <<input, result, twice, other, other_result, tpc>>

concvars == <<rq, cfiles, cnext, owner, access>>

fontvars == <<fonts, fcalls, fstage, flog, accepted>>

vars == <<reqvars, trvars, concvars, fontvars>>

NoResponse == [status |-> 0, file |-> 0]

InitRequest ==
    /\ app_file = "none"
    /\ kind = "none"
    /\ route = "none"
    /\ upload = [content_type |-> "none", size |-> 0, readable |-> FALSE,
                tempfile_failed |-> FALSE, write_failed |-> FALSE]
    /\ image_path = 0
    /\ files = {}
    /\ created = {}
    /\ nextPath = 1
    /\ ocrLog = <<>>
    /\ ocr_idx = 0
    /\ text = <<>>
    /\ stage = 0
    /\ stageLog = <<>>
    /\ render_result = "none"
    /\ pdf_path = 0
    /\ proc_result = "none"
    /\ ocr_invoked = FALSE
    /\ response = NoResponse

\* the transliteration runs are not part of this specification
NoTranslit ==
    /\ input = <<>>
    /\ result = <<>>
    /\ twice = <<>>
    /\ other = <<>>
    /\ other_result = <<>>
    /\ tpc = "off"

\* nor are the concurrent requests
NoConcurrent ==
    /\ rq = <<>>
    /\ cfiles = {}
    /\ cnext = 1
    /\ owner = <<>>
    /\ access = TRUE

\* nor the font cache
NoFonts ==
    /\ fonts = <<>>
    /\ fcalls = 0
    /\ fstage = 0
    /\ flog = <<>>
    /\ accepted = {}

Init ==
    /\ pc = "idle"
    /\ InitRequest
    /\ NoConcurrent
    /\ NoFonts
    /\ input = <<>>
    /\ result = <<>>
    /\ twice = <<>>
    /\ other = <<>>
    /\ other_result = <<>>
    /\ tpc = "off"

\* ------------------------------------------------------- upload handlers
\* what a handler does with an exception: answered with status 500 where
\* the handler catches it, otherwise it leaves the handler
handler_raises(f) ==
    IF catches_exceptions(f)
    THEN /\ response' = [status |-> 500, file |-> 0]
         /\ pc' = "responded"
    ELSE /\ response' = NoResponse
         /\ pc' = "escaped"

\* upload_file and api_upload_file up to "contents = await file.read()": the
\* content type is checked, the temporary file is made, and the handler waits
\* for the bytes of the upload
upload_file_begin ==
    /\ pc = "idle"
    /\ \E f \in AppFiles :
       \E r \in UploadRoutes(f), ct \in ContentTypes, sz \in UploadSizes,
          rd \in BOOLEAN, tempfile_failed \in BOOLEAN,
          write_failed \in BOOLEAN :
        /\ app_file' = f
        /\ kind' = "upload"
        /\ route' = r
        /\ upload' = [content_type |-> ct, size |-> sz, readable |-> rd,
                      tempfile_failed |-> tempfile_failed,
                      write_failed |-> write_failed]
        /\ IF checks_upload(f) /\ ct \notin allowed_types
           THEN /\ response' = [status |-> 400, file |-> 0]
                /\ pc' = "responded"
                /\ UNCHANGED <<image_path, files, created, nextPath>>
           ELSE IF tempfile_failed
           THEN /\ handler_raises(f)
                /\ UNCHANGED <<image_path, files, created, nextPath>>
           ELSE /\ image_path' = nextPath
                /\ files' = files \cup {nextPath}
                /\ created' = created \cup {nextPath}
                /\ nextPath' = nextPath + 1
                /\ pc' = "reading"
                /\ UNCHANGED response
    /\ UNCHANGED <<ocrLog, ocr_idx, text, stage, stageLog, render_result,
                   pdf_path, proc_result, ocr_invoked>>
    /\ UNCHANGED <<trvars, concvars, fontvars>>

\* upload_file and api_upload_file from the bytes of the upload to the call
\* of process_image_to_pdf: the bytes are written, and app/main.py answers 400
\* when the temporary file is empty
upload_file_read ==
    /\ pc = "reading"
    /\ IF upload.write_failed
       THEN /\ handler_raises(app_file)
            /\ UNCHANGED ocr_invoked
       ELSE IF checks_upload(app_file) /\ upload.size = 0
       THEN /\ response' = [status |-> 400, file |-> 0]
            /\ pc' = "responded"
            /\ UNCHANGED ocr_invoked
       ELSE /\ ocr_invoked' = TRUE
            /\ pc' = "process_image"
            /\ UNCHANGED response
    /\ UNCHANGED <<app_file, kind, route, upload, image_path, files, created,
                   nextPath, ocrLog, ocr_idx, text, stage, stageLog,
                   render_result, pdf_path, proc_result>>
    /\ UNCHANGED <<trvars, concvars, fontvars>>

\* process_image_to_pdf: the existence check and Image.open
process_image_open ==
    /\ pc = "process_image"
    /\ IF image_path \notin files \/ ~upload.readable
       THEN /\ proc_result' = "raised"
            /\ pc' = "handler_tail"
            /\ UNCHANGED ocr_idx
       ELSE /\ ocr_idx' = 1
            /\ pc' = "ocr"
            /\ UNCHANGED proc_result
    /\ UNCHANGED <<app_file, kind, route, upload, image_path, files, created, nextPath,
                   ocrLog, text, stage, stageLog, render_result, pdf_path,
                   ocr_invoked, response>>
    /\ UNCHANGED <<trvars, concvars, fontvars>>

\* the OCR block is left and create_text_pdf_with_cyrillic(text) is called
EnterRender ==
    /\ pc' = "render"
    /\ stage' = 1

\* the call with lang='ukr+eng+rus' and the eng call that follows an empty
\* answer; an exception leaves the block through one of its two handlers
ocr_first_two ==
    /\ pc = "ocr"
    /\ ocr_idx \in {1, 2}
    /\ \E o \in OcrOutcomes :
        /\ ocrLog' = Append(ocrLog, [cfg |-> ocr_configs[ocr_idx], out |-> o])
        /\ CASE o.kind = "text" ->
                  /\ text' = o.text
                  /\ IF strip(o.text) = <<>>
                     THEN /\ ocr_idx' = ocr_idx + 1
                          /\ UNCHANGED <<pc, stage>>
                     ELSE /\ EnterRender
                          /\ UNCHANGED ocr_idx
             [] o.kind = "notfound" ->
                  /\ text' = tesseract_not_found_text
                  /\ EnterRender
                  /\ UNCHANGED ocr_idx
             [] o.kind = "raise" ->
                  /\ text' = ocr_error_text(o.text)
                  /\ EnterRender
                  /\ UNCHANGED ocr_idx
    /\ UNCHANGED <<app_file, kind, route, upload, image_path, files, created, nextPath,
                   stageLog, render_result, pdf_path, proc_result,
                   ocr_invoked, response>>
    /\ UNCHANGED <<trvars, concvars, fontvars>>

\* the loop without its own try/except: an exception ends the loop
ocr_psm_raise_ends ==
    /\ pc = "ocr"
    /\ ocr_idx \in 3..Len(ocr_configs)
    /\ \E o \in OcrOutcomes :
        /\ ocrLog' = Append(ocrLog, [cfg |-> ocr_configs[ocr_idx], out |-> o])
        /\ IF o.kind = "text" /\ strip(o.text) # <<>>
           THEN /\ text' = o.text
                /\ EnterRender
                /\ UNCHANGED ocr_idx
           ELSE /\ UNCHANGED text
                /\ IF ocr_idx = Len(ocr_configs) \/ o.kind # "text"
                   THEN /\ EnterRender
                        /\ UNCHANGED ocr_idx
                   ELSE /\ ocr_idx' = ocr_idx + 1
                        /\ UNCHANGED <<pc, stage>>
    /\ UNCHANGED <<app_file, kind, route, upload, image_path, files, created, nextPath,
                   stageLog, render_result, pdf_path, proc_result,
                   ocr_invoked, response>>
    /\ UNCHANGED <<trvars, concvars, fontvars>>

\* one turn of "for psm in [6, 7, 8, 13]": a non-empty answer is taken and
\* ends the loop, an empty one or an exception goes on to the next mode
ocr_psm ==
    /\ pc = "ocr"
    /\ ocr_idx \in 3..Len(ocr_configs)
    /\ \E o \in OcrOutcomes :
        /\ ocrLog' = Append(ocrLog, [cfg |-> ocr_configs[ocr_idx], out |-> o])
        /\ IF o.kind = "text" /\ strip(o.text) # <<>>
           THEN /\ text' = o.text
                /\ EnterRender
                /\ UNCHANGED ocr_idx
           ELSE /\ UNCHANGED text
                /\ IF ocr_idx = Len(ocr_configs)
                   THEN /\ EnterRender
                        /\ UNCHANGED ocr_idx
                   ELSE /\ ocr_idx' = ocr_idx + 1
                        /\ UNCHANGED <<pc, stage>>
    /\ UNCHANGED <<app_file, kind, route, upload, image_path, files, created, nextPath,
                   stageLog, render_result, pdf_path, proc_result,
                   ocr_invoked, response>>
    /\ UNCHANGED <<trvars, concvars, fontvars>>

\* ------------------------------------------------------- rendering chain
\* one "try: return await method(text) / except Exception" of
\* create_text_pdf_with_cyrillic; the last method is called outside any try.
\* A method makes its output file with NamedTemporaryFile(delete=False) and
\* nothing removes it when the method raises afterwards.
attempt(method, outcomes) ==
    /\ pc = "render"
    /\ stage \in 1..Len(fallback_chain)
    /\ fallback_chain[stage] = method
    /\ \E o \in outcomes :
        LET p == IF o = "raise_early" THEN 0 ELSE nextPath IN
        /\ stageLog' = Append(stageLog,
                              [method |-> method, outcome |-> o, path |-> p])
        /\ files' = IF p = 0 THEN files ELSE files \cup {p}
        /\ created' = IF p = 0 THEN created ELSE created \cup {p}
        /\ nextPath' = IF p = 0 THEN nextPath ELSE nextPath + 1
        /\ IF o = "ok"
           THEN /\ pdf_path' = p
                /\ render_result' = "returned"
                /\ pc' = "after_render"
                /\ UNCHANGED stage
           ELSE IF stage = Len(fallback_chain)
           THEN /\ render_result' = "raised"
                /\ pc' = "after_render"
                /\ UNCHANGED <<pdf_path, stage>>
           ELSE /\ stage' = stage + 1
                /\ UNCHANGED <<pdf_path, render_result, pc>>
    /\ UNCHANGED <<app_file, kind, route, upload, image_path, ocrLog, ocr_idx, text,
                   proc_result, ocr_invoked, response>>
    /\ UNCHANGED <<trvars, concvars, fontvars>>

create_pdf_weasyprint ==
    attempt("create_pdf_weasyprint", MethodOutcomes)

create_text_pdf_reportlab_advanced ==
    attempt("create_text_pdf_reportlab_advanced", MethodOutcomes)

create_text_pdf_reportlab_simple ==
    attempt("create_text_pdf_reportlab_simple", MethodOutcomes)

create_text_pdf_fpdf_unicode ==
    attempt("create_text_pdf_fpdf_unicode", MethodOutcomes)

create_text_pdf_basic_fallback ==
    attempt("create_text_pdf_basic_fallback", MethodOutcomes)

\* ------------------------------------------------ the ends of the handlers
\* process_image_to_pdf after the chain: the image is unlinked only when the
\* chain returned, and stays when os.unlink raises (the exception is logged);
\* an exception of the chain is raised again
process_image_return ==
    /\ pc = "after_render"
    /\ kind = "upload"
    /\ IF render_result = "raised"
       THEN /\ proc_result' = "raised"
            /\ UNCHANGED files
       ELSE /\ proc_result' = "returned"
            /\ \E unlinks \in BOOLEAN :
                files' = IF unlinks THEN files \ {image_path} ELSE files
    /\ pc' = "handler_tail"
    /\ UNCHANGED <<app_file, kind, route, upload, image_path, created,
                   nextPath, ocrLog, ocr_idx, text, stage, stageLog,
                   render_result, pdf_path, ocr_invoked, response>>
    /\ UNCHANGED <<trvars, concvars, fontvars>>

\* the handler after the call that made the PDF: an exception of the call
\* is caught or leaves the handler; app/main.py answers 500 when pdf_path
\* does not exist; otherwise the answer is FileResponse(pdf_path)
handler_finish(raised) ==
    /\ IF raised
       THEN handler_raises(app_file)
       ELSE /\ response' =
                 IF checks_upload(app_file) /\ pdf_path \notin files
                 THEN [status |-> 500, file |-> 0]
                 ELSE [status |-> 200, file |-> pdf_path]
            /\ pc' = "responded"
    /\ UNCHANGED <<app_file, kind, route, upload, image_path, files, created,
                   nextPath, ocrLog, ocr_idx, text, stage, stageLog,
                   render_result, pdf_path, proc_result, ocr_invoked>>
    /\ UNCHANGED <<trvars, concvars, fontvars>>

\* upload_file and api_upload_file after process_image_to_pdf
upload_file_finish ==
    /\ pc = "handler_tail"
    /\ kind = "upload"
    /\ handler_finish(proc_result = "raised")

\* text_to_pdf and api_text_to_pdf: the form field is validated, then the
\* handler calls create_text_pdf(text)
text_to_pdf_begin ==
    /\ pc = "idle"
    /\ \E f \in AppFiles :
       \E r \in TextRoutes(f), t \in FormTexts :
        /\ app_file' = f
        /\ kind' = "text"
        /\ route' = r
        /\ text' = t
        /\ IF ~form_required(t)
           THEN /\ response' = [status |-> 422, file |-> 0]
                /\ pc' = "responded"
                /\ UNCHANGED stage
           ELSE /\ EnterRender
                /\ UNCHANGED response
    /\ UNCHANGED <<upload, image_path, files, created, nextPath, ocrLog,
                   ocr_idx, stageLog, render_result, pdf_path, proc_result,
                   ocr_invoked>>
    /\ UNCHANGED <<trvars, concvars, fontvars>>

\* text_to_pdf and api_text_to_pdf after create_text_pdf
text_to_pdf_finish ==
    /\ pc = "after_render"
    /\ kind = "text"
    /\ handler_finish(render_result = "raised")

\* the response is sent (FileResponse reads the file) and the request ends;
\* no handler registers a clean-up of the file it answers with
send_response ==
    /\ pc = "responded"
    /\ pc' = "ended"
    /\ UNCHANGED <<app_file, kind, route, upload, image_path, files, created, nextPath,
                   ocrLog, ocr_idx, text, stage, stageLog, render_result,
                   pdf_path, proc_result, ocr_invoked, response>>
    /\ UNCHANGED <<trvars, concvars, fontvars>>

Next ==
    \/ upload_file_begin
    \/ upload_file_read
    \/ process_image_open
    \/ ocr_first_two
    \/ ocr_psm
    \/ create_pdf_weasyprint
    \/ create_text_pdf_reportlab_advanced
    \/ create_text_pdf_reportlab_simple
    \/ create_text_pdf_fpdf_unicode
    \/ create_text_pdf_basic_fallback
    \/ process_image_return
    \/ upload_file_finish
    \/ text_to_pdf_begin
    \/ text_to_pdf_finish
    \/ send_response

Spec == Init /\ [][Next]_vars

\* ------------------------------------------- transliteration on its own
\* "Привіт, світ!"
Greeting ==
    <<1055, 1088, 1080, 1074, 1110, 1090, 44, 32, 1089, 1074, 1110, 1090, 33>>

\* the upper- and lower-case letters of the Ukrainian and Russian alphabets
UkrRusLetters ==
    (1040..1103) \cup {1025, 1105, 1028, 1108, 1030, 1110, 1031, 1111,
                       1168, 1169}

\* A z y ' ' , ! ' 7
LatinSample == {65, 122, 121, 32, 44, 33, 39, 55}

Alphabet == UkrRusLetters \cup LatinSample

\* the strings over S of length n and less
StringsUpTo(S, n) ==
    UNION {[1..k -> S] : k \in 0..n}

Inputs(n) == StringsUpTo(Alphabet, n) \cup {Greeting}

InitTranslit ==
    /\ pc = "off"
    /\ InitRequest
    /\ input \in Inputs(MaxLen)
    /\ result = <<>>
    /\ twice = <<>>
    /\ other = <<>>
    /\ other_result = <<>>
    /\ tpc = "start"
    /\ NoConcurrent
    /\ NoFonts

Transliterate ==
    /\ tpc = "start"
    /\ result' = transliterate_cyrillic(input)
    /\ tpc' = "once"
    /\ UNCHANGED <<input, twice, other, other_result>>
    /\ UNCHANGED <<reqvars, concvars, fontvars>>

TransliterateAgain ==
    /\ tpc = "once"
    /\ twice' = transliterate_cyrillic(result)
    /\ tpc' = "twice"
    /\ UNCHANGED <<input, result, other, other_result>>
    /\ UNCHANGED <<reqvars, concvars, fontvars>>

NextTranslit ==
    \/ Transliterate
    \/ TransliterateAgain

SpecTranslit == InitTranslit /\ [][NextTranslit]_vars

\* --------------------------------------------------- concurrent requests
\* uploads in flight at the same time. An upload makes every kind of
\* temporary file: its image, and through the chain the files text_to_pdf
\* makes too. A handler gives way to another request only at an await that
\* waits: file.read() in upload_file, and the sending of the response.
NumRequests == 2

Reqs == 1..NumRequests

\* temporary names given in all
MaxNames == 8

\* a fixed name instead of a generated one
NamedTemporaryFile_fixed(existing, names) ==
    {1}

\* tempfile.NamedTemporaryFile(delete=False): a new file under one of the
\* names of its directory that no file has; the name of a file that has
\* been unlinked can be given again
NamedTemporaryFile(existing, names) ==
    names \ existing

IdleRequest ==
    [pc |-> "idle", image |-> 0, pdf |-> 0, answer |-> 0]

InitConcurrent ==
    /\ pc = "off"
    /\ InitRequest
    /\ NoTranslit
    /\ NoFonts
    /\ rq = [r \in Reqs |-> IdleRequest]
    /\ cfiles = {}
    /\ cnext = 1
    /\ owner = <<>>
    /\ access = TRUE

\* request r makes, opens, reads, writes or unlinks the files at paths
Touch(r, paths) ==
    access' = (access /\ \A p \in paths \cap cfiles : owner[p] = r)

\* request r makes a file under the temporary name p and writes it
MakeTemp(r, p) ==
    /\ cfiles' = cfiles \cup {p}
    /\ cnext' = IF p = cnext THEN cnext + 1 ELSE cnext
    /\ owner' = (p :> r) @@ owner
    /\ Touch(r, {p})

\* create_text_pdf_with_cyrillic run to its end, the methods from the k-th on
\* answering as os says: the files made, in order, and the index of the one
\* returned (0 when every method raised)
RECURSIVE run_chain(_, _, _)
run_chain(os, k, made) ==
    IF k > Len(fallback_chain) THEN [made |-> made, pdf |-> 0]
    ELSE IF os[k] = "ok" THEN [made |-> made + 1, pdf |-> made + 1]
    ELSE run_chain(os, k + 1, IF os[k] = "raise_late" THEN made + 1 ELSE made)

\* what the chain can come to, over every way its methods can answer
ChainRuns ==
    {run_chain(os, 1, 0) : os \in [1..Len(fallback_chain) -> MethodOutcomes]}

\* the names of n PDFs made in a row; the chain has no await that lets
\* another request run between its methods. No PDF is ever unlinked, so the
\* names of its directory that no file has are the ones never given
RECURSIVE MadeNames(_, _, _)
MadeNames(existing, counter, n) ==
    IF n = 0 THEN <<>>
    ELSE LET p == CHOOSE q \in NamedTemporaryFile(existing, {counter}) : TRUE
         IN <<p>> \o MadeNames(existing \cup {p}, counter + 1, n - 1)

\* the chain in request r, and what follows it without an await: the unlink
\* of the image when the chain returned (the image stays when os.unlink
\* raises), and the handler's check that pdf_path exists before it answers
\* with FileResponse(pdf_path)
conc_render(r, image) ==
    \E run \in ChainRuns, unlinks \in BOOLEAN :
        LET names == MadeNames(cfiles, cnext, run.made)
            made == {names[i] : i \in 1..Len(names)}
            pdf == IF run.pdf = 0 THEN 0 ELSE names[run.pdf]
            unlinked == IF pdf # 0 /\ unlinks THEN {image} ELSE {}
            remaining == (cfiles \cup made) \ unlinked
        IN
        /\ pdf = 0 => unlinks
        /\ cnext + run.made <= MaxNames + 1
        /\ cfiles' = remaining
        /\ cnext' = cnext + run.made
        /\ owner' = [p \in made |-> r] @@ owner
        /\ Touch(r, made \cup {image})
        /\ rq' = [rq EXCEPT ![r].pc = "responded",
                            ![r].pdf = pdf,
                            ![r].answer = IF pdf \in remaining
                                          THEN pdf ELSE 0]

\* upload_file of request r up to its await of file.read(): a bad content
\* type is answered before any file is made, otherwise the temporary file of
\* the image is open when the handler waits for the bytes
conc_upload_file_begin(r) ==
    /\ rq[r].pc = "idle"
    /\ \E content_type \in ContentTypes :
        IF content_type \notin allowed_types
        THEN /\ rq' = [rq EXCEPT ![r].pc = "responded"]
             /\ UNCHANGED <<cfiles, cnext, owner, access>>
        ELSE \E p \in NamedTemporaryFile(cfiles, 1..cnext) \cap 1..MaxNames :
             /\ MakeTemp(r, p)
             /\ rq' = [rq EXCEPT ![r].image = p, ![r].pc = "reading"]
    /\ UNCHANGED <<reqvars, trvars, fontvars>>

\* upload_file of request r from the bytes on: they are written to its image
\* file; a zero-byte upload is answered, an image that cannot be opened makes
\* process_image_to_pdf raise, and otherwise the text goes to the chain
conc_upload_file_resume(r) ==
    /\ rq[r].pc = "reading"
    /\ \E size \in UploadSizes, readable \in BOOLEAN :
        IF size = 0 \/ rq[r].image \notin cfiles \/ ~readable
        THEN /\ rq' = [rq EXCEPT ![r].pc = "responded"]
             /\ Touch(r, {rq[r].image})
             /\ UNCHANGED <<cfiles, cnext, owner>>
        ELSE conc_render(r, rq[r].image)
    /\ UNCHANGED <<reqvars, trvars, fontvars>>

\* the response of request r is sent: FileResponse reads the file it names
conc_send_response(r) ==
    /\ rq[r].pc = "responded"
    /\ rq' = [rq EXCEPT ![r] = [IdleRequest EXCEPT !.pc = "ended"]]
    /\ Touch(r, {rq[r].answer} \ {0})
    /\ UNCHANGED <<cfiles, cnext, owner>>
    /\ UNCHANGED <<reqvars, trvars, fontvars>>

NextConcurrent ==
    \E r \in Reqs :
        \/ conc_upload_file_begin(r)
        \/ conc_upload_file_resume(r)
        \/ conc_send_response(r)

SpecConcurrent == InitConcurrent /\ [][NextConcurrent]_vars

\* ------------------------------------- transliteration of two characters
\* the characters the table has an entry for
TableChars == DOMAIN cyrillic_to_latin

InitPair ==
    /\ pc = "off"
    /\ InitRequest
    /\ input \in {<<c>> : c \in TableChars}
    /\ other \in {<<c>> : c \in TableChars}
    /\ result = <<>>
    /\ twice = <<>>
    /\ other_result = <<>>
    /\ tpc = "pair"
    /\ NoConcurrent
    /\ NoFonts

TransliteratePair ==
    /\ tpc = "pair"
    /\ result' = transliterate_cyrillic(input)
    /\ other_result' = transliterate_cyrillic(other)
    /\ tpc' = "paired"
    /\ UNCHANGED <<input, other, twice>>
    /\ UNCHANGED <<reqvars, concvars, fontvars>>

NextPair ==
    TransliteratePair

SpecPair == InitPair /\ [][NextPair]_vars

\* ------------------------------------------------- the font cache fonts/
\* calls of create_text_pdf_with_cyrillic, one after the other
MaxCalls == 2

\* font_attempts of create_text_pdf_reportlab_advanced, by file name
font_attempts == << "DejaVuSans", "NotoSans" >>

\* the file load_cyrillic_font looks for
fpdf_font == "DejaVuSans"

\* the number of font_urls load_cyrillic_font tries
NumFontUrls == 3

\* the size a cached file must exceed for ReportLab, and must not be below
ReportlabMinSize == 50000

\* the same for FPDF
FpdfMinSize == 100000

\* the sizes in bytes urlretrieve can leave at font_path once it has opened
\* the file for writing
DownloadSizes == {0, 40000, 60000, 200000}

\* what one call of urlretrieve can do: raise before font_path is opened,
\* which leaves the file as it was, or open font_path, which empties it,
\* write size bytes and then return or raise
Downloads ==
    {[opens |-> FALSE, size |-> 0, raises |-> TRUE]}
    \cup {[opens |-> TRUE, size |-> n, raises |-> b] :
              n \in DownloadSizes, b \in BOOLEAN}

\* the size of the file at font_path after the call d of urlretrieve
urlretrieve(size, d) ==
    IF d.opens THEN d.size ELSE size

NoMethod ==
    [call |-> 0, method |-> "none", imports |-> TRUE, skipped |-> {},
     downloaded |-> {}, font |-> "none", draws |-> TRUE, outcome |-> "none"]

InitFonts ==
    /\ pc = "off"
    /\ InitRequest
    /\ NoTranslit
    /\ NoConcurrent
    /\ fonts = [n \in {font_attempts[i] : i \in 1..Len(font_attempts)} |-> 0]
    /\ fcalls = 0
    /\ fstage = 0
    /\ flog = NoMethod
    /\ accepted = {}

\* one font of the loop of create_text_pdf_reportlab_advanced: mkdirs is
\* whether font_dir.mkdir returns, d is what urlretrieve does when it is
\* called, registers whether registerFont takes the file. A raise of any of
\* them is caught and the loop goes on
reportlab_font_attempt(fs, name, mkdirs, d, registers) ==
    LET downloads == mkdirs /\ (fs[name] = 0 \/ fs[name] < ReportlabMinSize)
        after == IF downloads
                 THEN [fs EXCEPT ![name] = urlretrieve(fs[name], d)] ELSE fs
        raised == ~mkdirs \/ (downloads /\ d.raises)
    IN [fonts |-> after,
        skipped |-> ~mkdirs,
        downloaded |-> downloads,
        loaded |-> ~raised /\ after[name] > ReportlabMinSize /\ registers]

\* the loop over font_attempts from the i-th on: it stops at the first font
\* loaded, and goes on after an exception
RECURSIVE reportlab_font_loop(_, _, _, _, _, _, _)
reportlab_font_loop(fs, i, mks, ds, regs, skipped, downloaded) ==
    IF i > Len(font_attempts)
    THEN [fonts |-> fs, skipped |-> skipped, downloaded |-> downloaded,
          active_font |-> "Helvetica", font_loaded |-> FALSE]
    ELSE LET a == reportlab_font_attempt(fs, font_attempts[i], mks[i], ds[i],
                                         regs[i])
             skips == IF a.skipped
                      THEN skipped \cup {font_attempts[i]} ELSE skipped
             seen == IF a.downloaded
                     THEN downloaded \cup {font_attempts[i]} ELSE downloaded
         IN IF a.loaded
            THEN [fonts |-> a.fonts, skipped |-> skips, downloaded |-> seen,
                  active_font |-> font_attempts[i], font_loaded |-> TRUE]
            ELSE reportlab_font_loop(a.fonts, i + 1, mks, ds, regs, skips,
                                     seen)

\* a raise where the loop has loaded no font
after_font_loop_raises(font_loaded) ==
    IF font_loaded THEN "draw" ELSE "raise"

\* after the loop of create_text_pdf_reportlab_advanced: "if not font_loaded"
\* logs a warning, its raise is commented out
after_font_loop(font_loaded) ==
    "draw"

\* the download loop of load_cyrillic_font from the i-th URL on: a call of
\* urlretrieve that raises is skipped, one that returns and leaves more than
\* FpdfMinSize bytes ends the loop
RECURSIVE fpdf_download_loop(_, _, _)
fpdf_download_loop(size, i, ds) ==
    IF i > NumFontUrls THEN [size |-> size, downloaded |-> FALSE]
    ELSE LET now == urlretrieve(size, ds[i])
         IN IF ~ds[i].raises /\ now > FpdfMinSize
            THEN [size |-> now, downloaded |-> TRUE]
            ELSE fpdf_download_loop(now, i + 1, ds)

\* CyrillicPDF.load_cyrillic_font on a new CyrillicPDF: when font_dir.mkdir
\* raises the outer except returns False and nothing is downloaded
load_cyrillic_font(fs, mkdirs, ds, adds) ==
    LET downloads == mkdirs /\ (fs[fpdf_font] = 0 \/ fs[fpdf_font] < FpdfMinSize)
        got == IF downloads THEN fpdf_download_loop(fs[fpdf_font], 1, ds)
               ELSE [size |-> fs[fpdf_font], downloaded |-> FALSE]
        after == [fs EXCEPT ![fpdf_font] = got.size]
    IN [fonts |-> after,
        skipped |-> IF mkdirs THEN {} ELSE {fpdf_font},
        downloaded |-> IF downloads THEN {fpdf_font} ELSE {},
        fetched |-> got.downloaded,
        cyrillic_supported |->
            /\ mkdirs
            /\ downloads => got.downloaded
            /\ got.size > FpdfMinSize
            /\ adds]

\* create_text_pdf_with_cyrillic is called
font_call_begin ==
    /\ fstage = 0
    /\ fcalls < MaxCalls
    /\ fcalls' = fcalls + 1
    /\ fstage' = 1
    /\ flog' = [NoMethod EXCEPT !.call = fcalls + 1]
    /\ UNCHANGED <<fonts, accepted>>
    /\ UNCHANGED <<reqvars, trvars, concvars>>

\* where the chain goes after a method: its except clause passes a raise to
\* the next method, the last method is outside any try
font_chain_step(outcome) ==
    fstage' = IF outcome = "raised" /\ fstage < Len(fallback_chain)
              THEN fstage + 1 ELSE 0

\* a method of the chain that uses no file of fonts/
font_free_method(method) ==
    /\ fstage # 0
    /\ fallback_chain[fstage] = method
    /\ \E outcome \in {"returned", "raised"} :
        /\ flog' = [call |-> fcalls, method |-> method, imports |-> TRUE,
                    skipped |-> {}, downloaded |-> {}, font |-> "none",
                    draws |-> outcome = "returned", outcome |-> outcome]
        /\ font_chain_step(outcome)
    /\ UNCHANGED <<fonts, fcalls, accepted>>
    /\ UNCHANGED <<reqvars, trvars, concvars>>

font_create_pdf_weasyprint ==
    font_free_method("create_pdf_weasyprint")

font_create_text_pdf_reportlab_simple ==
    font_free_method("create_text_pdf_reportlab_simple")

font_create_text_pdf_basic_fallback ==
    font_free_method("create_text_pdf_basic_fallback")

\* create_text_pdf_reportlab_advanced: the imports and the output file made
\* (imports), the font loop, then the canvas drawn with active_font and saved
font_create_text_pdf_reportlab_advanced ==
    /\ fstage # 0
    /\ fallback_chain[fstage] = "create_text_pdf_reportlab_advanced"
    /\ \E imports \in BOOLEAN,
          mks \in [1..Len(font_attempts) -> BOOLEAN],
          ds \in [1..Len(font_attempts) -> Downloads],
          regs \in [1..Len(font_attempts) -> BOOLEAN],
          draws \in BOOLEAN :
        IF ~imports
        THEN /\ flog' = [call |-> fcalls,
                         method |-> "create_text_pdf_reportlab_advanced",
                         imports |-> FALSE, skipped |-> {},
                         downloaded |-> {},
                         font |-> "none", draws |-> FALSE,
                         outcome |-> "raised"]
             /\ font_chain_step("raised")
             /\ UNCHANGED <<fonts, accepted>>
        ELSE LET loop == reportlab_font_loop(fonts, 1, mks, ds, regs, {}, {})
                 outcome == IF after_font_loop(loop.font_loaded) = "draw"
                               /\ draws
                            THEN "returned" ELSE "raised"
             IN /\ fonts' = loop.fonts
                /\ flog' = [call |-> fcalls,
                            method |-> "create_text_pdf_reportlab_advanced",
                            imports |-> TRUE,
                            skipped |-> loop.skipped,
                            downloaded |-> loop.downloaded,
                            font |-> loop.active_font,
                            draws |-> draws,
                            outcome |-> outcome]
                /\ accepted' =
                       IF loop.font_loaded
                          /\ loop.active_font \in loop.downloaded
                       THEN accepted \cup {<<loop.active_font, fcalls>>}
                       ELSE accepted
                /\ font_chain_step(outcome)
    /\ UNCHANGED fcalls
    /\ UNCHANGED <<reqvars, trvars, concvars>>

\* create_text_pdf_fpdf_unicode: it makes its output file first; when that
\* raises nothing of fonts/ is read or written. Otherwise it raises when
\* load_cyrillic_font has not loaded the font, or writes the text and saves
font_create_text_pdf_fpdf_unicode ==
    /\ fstage # 0
    /\ fallback_chain[fstage] = "create_text_pdf_fpdf_unicode"
    /\ \E makes \in BOOLEAN, mkdirs \in BOOLEAN,
          ds \in [1..NumFontUrls -> Downloads],
          adds \in BOOLEAN, draws \in BOOLEAN :
        IF ~makes
        THEN /\ flog' = [call |-> fcalls,
                         method |-> "create_text_pdf_fpdf_unicode",
                         imports |-> FALSE, skipped |-> {},
                         downloaded |-> {},
                         font |-> "none", draws |-> FALSE,
                         outcome |-> "raised"]
             /\ font_chain_step("raised")
             /\ UNCHANGED <<fonts, accepted>>
        ELSE LET load == load_cyrillic_font(fonts, mkdirs, ds, adds)
                 outcome == IF load.cyrillic_supported /\ draws
                            THEN "returned" ELSE "raised"
             IN /\ fonts' = load.fonts
                /\ flog' = [call |-> fcalls,
                            method |-> "create_text_pdf_fpdf_unicode",
                            imports |-> TRUE,
                            skipped |-> load.skipped,
                            downloaded |-> load.downloaded,
                            font |-> IF load.cyrillic_supported
                                     THEN fpdf_font ELSE "none",
                            draws |-> draws,
                            outcome |-> outcome]
                /\ accepted' = IF load.fetched /\ load.cyrillic_supported
                               THEN accepted \cup {<<fpdf_font, fcalls>>}
                               ELSE accepted
                /\ font_chain_step(outcome)
    /\ UNCHANGED fcalls
    /\ UNCHANGED <<reqvars, trvars, concvars>>

NextFonts ==
    \/ font_call_begin
    \/ font_create_pdf_weasyprint
    \/ font_create_text_pdf_reportlab_advanced
    \/ font_create_text_pdf_reportlab_simple
    \/ font_create_text_pdf_fpdf_unicode
    \/ font_create_text_pdf_basic_fallback

SpecFonts == InitFonts /\ [][NextFonts]_vars

\* ================================================================ claims
\* the OCR block of an upload has been left and the text handed to the chain
OcrFinished ==
    /\ kind = "upload"
    /\ stage >= 1
    /\ pc \in {"render", "after_render", "handler_tail", "responded", "ended",
              "escaped"}

OcrRaisedAt(i) ==
    ocrLog[i].out.kind \in {"raise", "notfound"}

OcrNonEmptyAt(i) ==
    /\ ocrLog[i].out.kind = "text"
    /\ strip(ocrLog[i].out.text) # <<>>

StartsWith(s, prefix) ==
    /\ Len(s) >= Len(prefix)
    /\ SubSeq(s, 1, Len(prefix)) = prefix

ClaimedChain ==
    << "create_pdf_weasyprint", "create_text_pdf_reportlab_advanced",
       "create_text_pdf_reportlab_simple", "create_text_pdf_fpdf_unicode",
       "create_text_pdf_basic_fallback" >>

\* C1: the chain attempts WeasyPrint, ReportLab advanced, ReportLab simple,
\* FPDF Unicode and the transliteration fallback in that order; every method
\* before the last attempted one has raised, so nothing is attempted after a
\* success; the path returned is the one the succeeding method produced; and
\* the chain raises exactly when all five methods have raised.
C1_ChainInOrder ==
    /\ Len(stageLog) <= 5
    /\ \A i \in 1..Len(stageLog) : stageLog[i].method = ClaimedChain[i]
    /\ \A i \in 1..(Len(stageLog) - 1) : stageLog[i].outcome # "ok"
    /\ render_result = "returned" =>
         /\ stageLog # <<>>
         /\ stageLog[Len(stageLog)].outcome = "ok"
         /\ pdf_path = stageLog[Len(stageLog)].path
         /\ pdf_path \in files
    /\ render_result = "raised" <=>
         /\ Len(stageLog) = 5
         /\ \A i \in 1..5 : stageLog[i].outcome # "ok"
    /\ (stageLog # <<>> /\ stageLog[Len(stageLog)].outcome = "ok") =>
         render_result = "returned"

\* the third method succeeded after the first two raised
C1_Witness ==
    /\ render_result = "returned"
    /\ Len(stageLog) = 3
    /\ pc = "ended"

\* C2: when all six OCR calls answered with empty or whitespace-only text,
\* the text handed to the chain is a non-empty placeholder.
C2_Placeholder ==
    ( /\ OcrFinished
      /\ Len(ocrLog) = 6
      /\ \A i \in 1..6 : ocrLog[i].out.kind = "text" /\ ~OcrNonEmptyAt(i) )
    => strip(text) # <<>>

ClaimedConfigs ==
    << [lang |-> "ukr+eng+rus", psm |-> 3], [lang |-> "eng", psm |-> 3],
       [lang |-> "eng", psm |-> 6], [lang |-> "eng", psm |-> 7],
       [lang |-> "eng", psm |-> 8], [lang |-> "eng", psm |-> 13] >>

\* C3: the OCR calls are made in the order ukr+eng+rus psm 3, eng psm 3, eng
\* psm 6, 7, 8, 13; when no call has raised, a call that answers non-empty
\* text is the last call made, and its answer is the text handed to the chain.
C3_FirstNonEmpty ==
    /\ Len(ocrLog) <= 6
    /\ \A i \in 1..Len(ocrLog) : ocrLog[i].cfg = ClaimedConfigs[i]
    /\ (\A i \in 1..Len(ocrLog) : ~OcrRaisedAt(i)) =>
         \A i \in 1..Len(ocrLog) :
             OcrNonEmptyAt(i) =>
                 /\ i = Len(ocrLog)
                 /\ OcrFinished
                 /\ text = ocrLog[i].out.text

\* psm 7 is the first call to find text
C3_Witness ==
    /\ Len(ocrLog) = 4
    /\ \A i \in 1..3 : ocrLog[i].out.kind = "text"
    /\ OcrNonEmptyAt(4)
    /\ pc = "ended"

\* C4 as stated: whenever an OCR call has raised, the text handed to the
\* chain is an 'OCR Error: ...' string and process_image_to_pdf returns a
\* PDF path.
C4_AnyRaiseBecomesErrorText ==
    ( /\ kind = "upload"
      /\ pc = "ended"
      /\ \E i \in 1..Len(ocrLog) : OcrRaisedAt(i) )
    => /\ StartsWith(text, OcrErrorPrefix)
       /\ proc_result = "returned"
       /\ pdf_path # 0

\* C4 amended: when the ukr+eng+rus call or the eng psm 3 call raises, the
\* text handed to the chain is the 'OCR Error: ...' string of that exception,
\* and process_image_to_pdf returns the chain's PDF path unless all five
\* rendering methods raise; the request then ends with status 200.  When
\* all five raise, process_image_to_pdf raises: a handler of app/main.py
\* answers with status 500, from the handler of app.py the exception escapes
\* and no response is made.  When neither of the two has raised (an
\* exception of a psm 6/7/8/13 call is skipped inside the loop) the text is
\* no 'OCR Error: ...' string.
C4_FirstTwoRaiseBecomesErrorText ==
    /\ ( /\ OcrFinished
         /\ \A i \in 1..Len(ocrLog) : i <= 2 => ~OcrRaisedAt(i) )
       => ~StartsWith(text, OcrErrorPrefix)
    /\ ( /\ OcrFinished
         /\ \E i \in 1..Len(ocrLog) : i <= 2 /\ OcrRaisedAt(i) )
       => LET last == ocrLog[Len(ocrLog)].out IN
          /\ Len(ocrLog) <= 2
          /\ StartsWith(text, OcrErrorPrefix)
          /\ last.kind = "raise" =>
               SubSeq(text, Len(OcrErrorPrefix) + 1,
                      Len(OcrErrorPrefix) + Len(last.text)) = last.text
          /\ pc \in {"handler_tail", "responded", "ended", "escaped"} =>
               (proc_result = "returned" <=>
                  \E k \in 1..Len(stageLog) : stageLog[k].outcome = "ok")
          /\ (pc = "ended" /\ proc_result = "returned") =>
               /\ response.status = 200
               /\ response.file = pdf_path
               /\ pdf_path \in files
          /\ (pc \in {"responded", "ended", "escaped"}
              /\ proc_result = "raised") =>
               IF catches_exceptions(app_file)
               THEN /\ pc # "escaped"
                    /\ response.status = 500
                    /\ response.file = 0
               ELSE /\ pc = "escaped"
                    /\ response = NoResponse

\* the first OCR call raised and the request was answered with a PDF
C4_Witness ==
    /\ pc = "ended"
    /\ kind = "upload"
    /\ Len(ocrLog) = 1
    /\ ocrLog[1].out.kind = "raise"
    /\ response.status = 200

\* C5: a text request with an empty text field is answered with a 4xx status,
\* without a file, and no rendering method is attempted for it.
C5_EmptyTextRejected ==
    (kind = "text" /\ text = <<>>) =>
        /\ pc \in {"responded", "ended"}
        /\ response.status \in 400..499
        /\ response.file = 0
        /\ stageLog = <<>>
        /\ created = {}

C5_Witness ==
    /\ kind = "text"
    /\ text = <<>>
    /\ pc = "ended"

ClaimedImageTypes ==
    {"image/jpeg", "image/jpg", "image/png", "image/gif", "image/bmp",
     "image/tiff"}

\* C6: an upload whose content type is not an allowed image type is answered
\* with a 4xx status and process_image_to_pdf is never called for it.
C6_BadTypeRejected ==
    (kind = "upload" /\ upload.content_type \notin ClaimedImageTypes) =>
        /\ ~ocr_invoked
        /\ ocrLog = <<>>
        /\ pc \in {"responded", "ended"} =>
             /\ response.status \in 400..499
             /\ response.file = 0

\* C7: when a request has ended, none of the temporary files it created
\* exists any more.
C7_TempFilesDeleted ==
    pc = "ended" => created \cap files = {}

\* "Privit, svit!"
Privit ==
    <<80, 114, 105, 118, 105, 116, 44, 32, 115, 118, 105, 116, 33>>

\* "Pryvit, svit!"
Pryvit ==
    <<80, 114, 121, 118, 105, 116, 44, 32, 115, 118, 105, 116, 33>>

\* C8 as stated: transliterate_cyrillic("Привіт, світ!") is "Privit, svit!".
C8_GreetingIsPrivit ==
    (tpc # "start" /\ input = Greeting) => result = Privit

\* C8 amended: transliterate_cyrillic("Привіт, світ!") is "Pryvit, svit!".
C8_GreetingIsPryvit ==
    (tpc # "start" /\ input = Greeting) => result = Pryvit

C8_Witness ==
    /\ tpc = "once"
    /\ input = Greeting

Replacement(c) ==
    IF c \in DOMAIN cyrillic_to_latin THEN cyrillic_to_latin[c] ELSE <<c>>

\* the length of the replacements of the first n characters of s
RECURSIVE ReplacedLen(_, _)
ReplacedLen(s, n) ==
    IF n = 0 THEN 0
    ELSE ReplacedLen(s, n - 1) + Len(Replacement(s[n]))

IsAscii(s) ==
    \A i \in 1..Len(s) : s[i] \in 0..127

\* C9: the value of transliterate_cyrillic is the replacements of the
\* characters of its argument laid end to end in the argument's order, a
\* character outside the table being its own replacement; an ASCII argument
\* comes back unchanged, and so does its result when transliterated again.
C9_CharByChar ==
    tpc # "start" =>
        /\ Len(result) = ReplacedLen(input, Len(input))
        /\ \A i \in 1..Len(input) :
             SubSeq(result, ReplacedLen(input, i - 1) + 1,
                    ReplacedLen(input, i)) = Replacement(input[i])
        /\ IsAscii(input) => result = input
        /\ (IsAscii(input) /\ tpc = "twice") => twice = result

\* "ж!" has become "zh!"
C9_Witness ==
    /\ tpc = "twice"
    /\ input = <<1078, 33>>
    /\ result = <<122, 104, 33>>

\* the Cyrillic block U+0400..U+04FF
IsCyrillic(c) ==
    c \in 1024..1279

\* C10: for an argument made of letters of the Ukrainian and Russian
\* alphabets, the value of transliterate_cyrillic has no Cyrillic character.
C10_NoCyrillicLeft ==
    (tpc # "start" /\ \A i \in 1..Len(input) : input[i] \in UkrRusLetters)
    => \A j \in 1..Len(result) : ~IsCyrillic(result[j])

\* C11 as stated: two different strings of table characters never have the
\* same transliteration.
C11_Injective ==
    (tpc = "paired" /\ input # other) => result # other_result

\* the pairs of table characters that share a replacement:
\* и/й ('y'), И/Й ('Y'), ь/Ь ('')
SharedReplacement ==
    {{1080, 1081}, {1048, 1049}, {1100, 1068}}

\* C11 amended: two distinct table characters have distinct replacements,
\* except for и/й, И/Й and ь/Ь, which do share one.
C11_InjectiveButThree ==
    (tpc = "paired" /\ input # other) =>
        (result = other_result <=> {input[1], other[1]} \in SharedReplacement)

\* 'ш' and 'щ' have become "sh" and "shch"
C11_Witness ==
    /\ tpc = "paired"
    /\ input = <<1096>>
    /\ other = <<1097>>
    /\ result = <<115, 104>>
    /\ other_result = <<115, 104, 99, 104>>

\* C12: no exception leaves a handler, and every request ends with an HTTP
\* response: a 4xx status for a bad content type, a zero-byte upload or an
\* empty text; a 5xx status when the temporary file cannot be made or
\* written, the image cannot be opened or all five rendering methods raise;
\* 200 with the chain's file otherwise.
C12_AlwaysAnswered ==
    /\ pc # "escaped"
    /\ pc \in {"responded", "ended"} =>
        LET bad_type ==
                kind = "upload" /\ upload.content_type \notin ClaimedImageTypes
            no_file ==
                kind = "upload" /\ (upload.tempfile_failed \/ upload.write_failed)
            client_error ==
                \/ bad_type
                \/ kind = "upload" /\ ~no_file /\ upload.size = 0
                \/ kind = "text" /\ text = <<>>
            internal_failure ==
                /\ ~client_error
                /\ \/ no_file
                   \/ kind = "upload" /\ ~upload.readable
                   \/ render_result = "raised"
        IN  /\ response.status \in {200} \cup (400..599)
            /\ client_error <=> response.status \in 400..499
            /\ internal_failure <=> response.status \in 500..599
            /\ response.status = 200 <=>
                  (render_result = "returned" /\ response.file = pdf_path)

\* C16: an exception of a psm 6, 7, 8 or 13 call does not end the OCR
\* sequence: the next mode is called, in order, and the non-empty answer of
\* a later mode is the text handed to the chain.
C16_PsmRaiseSkipped ==
    \A i \in 3..Len(ocrLog) :
        OcrRaisedAt(i) =>
            /\ ocrLog[i].cfg = ClaimedConfigs[i]
            /\ (i < 6 /\ Len(ocrLog) = i) => (pc = "ocr" /\ ocr_idx = i + 1)
            /\ OcrFinished => (Len(ocrLog) = 6 \/ OcrNonEmptyAt(Len(ocrLog)))
            /\ \A j \in (i + 1)..Len(ocrLog) :
                 /\ ocrLog[j].cfg = ClaimedConfigs[j]
                 /\ OcrNonEmptyAt(j) =>
                      (j = Len(ocrLog) /\ OcrFinished
                       /\ text = ocrLog[j].out.text)

\* psm 6 raised, psm 7 answered nothing, psm 8 found the text
C16_Witness ==
    /\ pc = "ended"
    /\ Len(ocrLog) = 5
    /\ ocrLog[3].out.kind = "raise"
    /\ OcrNonEmptyAt(5)
    /\ text = ocrLog[5].out.text
    /\ response.status = 200

\* C17: transliterating the value of transliterate_cyrillic again changes
\* nothing, whatever the argument was made of.
C17_Idempotent ==
    tpc = "twice" => twice = result

\* "ыж": an unmapped Cyrillic letter and a table letter
C17_Witness ==
    /\ tpc = "twice"
    /\ input = <<1099, 1078>>
    /\ result = <<1099, 122, 104>>
    /\ twice = result

\* the temporary names request r will still use: its image until
\* process_image_to_pdf has returned, its PDF, its answer
Held(r) ==
    ((IF rq[r].pc = "reading" THEN {rq[r].image} ELSE {})
     \cup {rq[r].pdf, rq[r].answer}) \ {0}

\* C13: whatever the interleaving, every file operation of a request is on
\* a file that request made, no two requests hold the same temporary name,
\* and the file a request answers with is the PDF its own chain wrote.
C13_PrivateTempFiles ==
    /\ access
    /\ \A r \in Reqs : \A p \in Held(r) : p \in cfiles /\ owner[p] = r
    /\ \A r1, r2 \in Reqs : r1 # r2 => Held(r1) \cap Held(r2) = {}
    /\ \A r \in Reqs :
         rq[r].answer # 0 =>
             /\ rq[r].answer = rq[r].pdf
             /\ rq[r].answer \in cfiles

\* request 1 began first, request 2 got its PDF first, both unlinked their
\* image and both were answered
C13_Witness ==
    /\ rq[1].pc = "ended" /\ rq[2].pc = "ended"
    /\ cfiles = {3, 4}
    /\ owner[3] = 2 /\ owner[4] = 1
    /\ access

\* C14 as stated: a font downloaded and accepted in one call is not
\* downloaded again by a font-using method of a later call
C14_DownloadedOnce ==
    \A n \in flog.downloaded :
        \A c \in 1..MaxCalls : <<n, c>> \in accepted => c >= flog.call

\* C15 as stated: when create_text_pdf_reportlab_advanced loads none of its
\* fonts it raises and the chain is at the next method, it does not return a
\* PDF drawn with the built-in font
C15_NoFontRaises ==
    (flog.method = "create_text_pdf_reportlab_advanced"
     /\ flog.font = "Helvetica")
        => /\ flog.outcome = "raised"
           /\ fstage # 0
           /\ fallback_chain[fstage] = "create_text_pdf_reportlab_simple"

\* C15 amended: create_text_pdf_reportlab_advanced does not raise for want
\* of a font. It returns a PDF whenever its imports and its drawing succeed,
\* drawn with the font it loaded or, when it loaded none, with built-in
\* Helvetica; a PDF it returns ends the chain, and the chain is at the next
\* method only when the imports or the drawing raised. Helvetica means that
\* for each font fonts/ could not be made, or the font was downloaded, or
\* its cached file was not taken
C15_HelveticaWhenNoFont ==
    flog.method = "create_text_pdf_reportlab_advanced" =>
        /\ flog.outcome = "returned" <=> (flog.imports /\ flog.draws)
        /\ flog.outcome = "returned" =>
            /\ fstage = 0
            /\ flog.font = "Helvetica"
               \/ \E i \in 1..Len(font_attempts) :
                    /\ flog.font = font_attempts[i]
                    /\ fonts[flog.font] > ReportlabMinSize
        /\ flog.outcome = "raised" =>
            /\ fstage # 0
            /\ fallback_chain[fstage] = "create_text_pdf_reportlab_simple"
        /\ flog.font = "Helvetica" =>
            \A i \in 1..Len(font_attempts) :
                font_attempts[i] \in flog.skipped
                \/ font_attempts[i] \in flog.downloaded
                \/ fonts[font_attempts[i]] >= ReportlabMinSize

\* no font could be downloaded, and the method returned a PDF in Helvetica
C15_Witness ==
    /\ flog.method = "create_text_pdf_reportlab_advanced"
    /\ flog.font = "Helvetica"
    /\ flog.outcome = "returned"
    /\ flog.downloaded = {"DejaVuSans", "NotoSans"}
    /\ \A n \in DOMAIN fonts : fonts[n] = 0
    /\ fstage = 0

====
